---- MODULE Spec2Model ----
(***************************************************************************)
(* Model of the crawl-fetch-parse-persist pipeline of src/src/scraper.py.  *)
(*                                                                         *)
(* Two specifications share the module:                                    *)
(*   SpecFetch  one call of fetch(session, url), one step per attempt;     *)
(*   Spec       two run_scraper coroutines (two scheduler ticks or two     *)
(*              processes) racing on the same "car" table.                 *)
(***************************************************************************)
EXTENDS Integers, Sequences, FiniteSets, TLC

\* ------------------------------------------------------------- bounds
MaxConc == 2    \* run_scraper is started with concurrency in 1..MaxConc
MaxLinks == 2   \* a listing page carries at most MaxLinks a.address links
MaxPage == 2    \* the site has MaxPage listing pages; later ones are empty
MaxText == 4    \* the text of a detail page's elements has at most MaxText characters

\* ---------------------------------------------------- program constants
MAX_RETRIES == 3

URLS == {"u1", "u2"}
Runs == {"r1", "r2"}
Solo == "r1"
page_start == 1

VARIABLES
    \* ---- one call of fetch()
    attempt,      \* loop variable of "for attempt in range(1, MAX_RETRIES + 1)"
    last_exc,     \* local last_exc
    gets,         \* number of session.get() issued by the call
    trace,        \* the per-attempt outcomes the server/network produced
    f_result,     \* "none" while running, else how the call ended
    f_cause,      \* __cause__ of the exception the call raised
    \* ---- run_scraper, per run
    concurrency,  \* parameter concurrency
    sem,          \* asyncio.Semaphore(concurrency)._value
    page,         \* local page
    pc,           \* position of the coroutine
    stop,         \* how the run ended ("running" while it has not)
    links,        \* local links
    to_fetch,     \* local to_fetch
    tasks,        \* the guarded_parse tasks handed to asyncio.gather
    rows,         \* local rows
    inserted,     \* local inserted
    db_open,      \* the "async with SessionLocal() as db" block is entered
    pending,      \* rows the session's open transaction has inserted
    fetched,      \* pages whose listing GET was issued
    persisted,    \* pages for which a persistence operation was issued
    \* ---- shared
    store,        \* committed rows of table "car"
    seen,         \* urls that appeared on a listing page of some run
    lossy,        \* some detail task or persistence step has failed
    \* ---- one call of parse_car()
    html,         \* the detail page: its odometer and phone elements
    odo_raw,      \* local odo_raw
    phone_raw,    \* local phone_raw
    car,          \* the dict parse_car returns (odometer, phone_number)
    ppc           \* position inside parse_car

fetchVars == <<attempt, last_exc, gets, trace, f_result, f_cause>>
runVars == <<concurrency, sem, page, pc, stop, links, to_fetch, tasks, rows, inserted,
             db_open, pending, fetched, persisted>>
sharedVars == <<store, seen, lossy>>
parseVars == <<html, odo_raw, phone_raw, car, ppc>>
vars == <<fetchVars, runVars, sharedVars, parseVars>>

\* ------------------------------------------------------------ helpers
Range(s) == {s[i] : i \in 1..Len(s)}

SeqsUpTo(S, n) == UNION {[1..k -> S] : k \in 0..n}

RECURSIVE SelectIdx(_, _, _)
\* the subsequence of s at the indices i (ascending) for which keep[i]
SelectIdx(s, keep, i) ==
    IF i > Len(s) THEN <<>>
    ELSE (IF keep[i] THEN <<s[i]>> ELSE <<>>) \o SelectIdx(s, keep, i + 1)

\* =====================================================================
\* fetch(session, url): src/src/scraper.py 57-93
\* =====================================================================

\* What one "async with session.get(...)" can produce: a response with a
\* status, or a client-side failure before any response.
Statuses == {200, 304, 403, 404, 429, 500}
NetFailures == {"ClientConnectionError", "TimeoutError"}
Responses == [kind : {"status"}, code : Statuses]
             \cup [kind : NetFailures, code : {0}]

None == [type |-> "None", at |-> 0]

\* line 64: r.status in (403, 429)
Blocked(resp) == resp.kind = "status" /\ resp.code \in {403, 429}

\* line 77: r.raise_for_status() raises ClientResponseError when status >= 400
RaiseForStatus(resp) == resp.kind = "status" /\ resp.code >= 400

\* The exception attempt a ends with inside the try block (None: no
\* exception): a failure of session.get itself, or raise_for_status.
Raised(resp, a) ==
    IF resp.kind \in NetFailures THEN [type |-> resp.kind, at |-> a]
    ELSE IF ~Blocked(resp) /\ RaiseForStatus(resp)
         THEN [type |-> "ClientResponseError", at |-> a]
         ELSE None

CatchesOnlyTransport(e) == e.type \in {"ClientConnectionError", "TimeoutError"}

\* line 80: except (aiohttp.ClientError, asyncio.TimeoutError); both
\* ClientConnectionError and ClientResponseError derive from ClientError.
Catches(e) ==
    e.type \in {"ClientConnectionError", "ClientResponseError", "TimeoutError"}

RecordExcFirst(old, e) == IF old = None THEN e ELSE old

\* line 81: last_exc = e
RecordExc(old, e) == e

LoopContinuesOneMore(a) == a <= MAX_RETRIES + 1

\* line 59: for attempt in range(1, MAX_RETRIES + 1)
LoopContinues(a) == a <= MAX_RETRIES

InitFetch ==
    /\ attempt = 1
    /\ last_exc = None
    /\ gets = 0
    /\ trace = <<>>
    /\ f_result = "none"
    /\ f_cause = None

Running == f_result = "none" /\ LoopContinues(attempt)

NextAttemptFree(a) == a

\* lines 62, 75: "continue" takes the next value of range(1, MAX_RETRIES + 1)
NextAttempt(a) == a + 1

\* lines 64-75: blocked status, backoff, continue
FetchBlocked ==
    /\ Running
    /\ \E resp \in Responses :
        /\ Blocked(resp)
        /\ trace' = Append(trace, resp)
    /\ gets' = gets + 1
    /\ attempt' = NextAttempt(attempt)
    /\ UNCHANGED <<last_exc, f_result, f_cause>>

\* lines 63, 77, 80-89: the attempt ends in an exception
FetchRaises ==
    /\ Running
    /\ \E resp \in Responses :
        LET e == Raised(resp, attempt) IN
        /\ e # None
        /\ trace' = Append(trace, resp)
        /\ IF Catches(e)
           THEN /\ last_exc' = RecordExc(last_exc, e)
                /\ attempt' = attempt + 1
                /\ UNCHANGED <<f_result, f_cause>>
           ELSE /\ f_result' = e.type
                /\ UNCHANGED <<last_exc, attempt, f_cause>>
    /\ gets' = gets + 1

\* lines 77-78: return await r.text()
FetchReturns ==
    /\ Running
    /\ \E resp \in Responses :
        /\ ~Blocked(resp)
        /\ Raised(resp, attempt) = None
        /\ trace' = Append(trace, resp)
    /\ gets' = gets + 1
    /\ f_result' = "body"
    /\ UNCHANGED <<attempt, last_exc, f_cause>>

\* lines 91-93: raise RuntimeError(...) from last_exc
FetchExhausted ==
    /\ f_result = "none"
    /\ ~LoopContinues(attempt)
    /\ f_result' = "RuntimeError"
    /\ f_cause' = last_exc
    /\ UNCHANGED <<attempt, last_exc, gets, trace>>

NextFetch ==
    \/ FetchBlocked /\ UNCHANGED <<runVars, sharedVars, parseVars>>
    \/ FetchRaises /\ UNCHANGED <<runVars, sharedVars, parseVars>>
    \/ FetchReturns /\ UNCHANGED <<runVars, sharedVars, parseVars>>
    \/ FetchExhausted /\ UNCHANGED <<runVars, sharedVars, parseVars>>

\* =====================================================================
\* run_scraper(start_url, concurrency, page_start): scraper.py 149-235
\* =====================================================================

\* what a listing document can yield at line 198 (hrefs, repeats allowed)
LinkSeqs == SeqsUpTo(URLS, MaxLinks)

\* the dict parse_car returns for url u (lines 115-127): the fields other
\* than url are fixed by the extraction that produced them, named here by
\* the run and the page of that extraction
Row(u, r, p) == [url |-> u, run |-> r, page |-> p]

Urls(rs) == {rs[i].url : i \in 1..Len(rs)}

\* how a guarded_parse task can end inside its try block (lines 166-171)
DetailOutcomes == {"ok", "fetch_error", "parse_error"}

OnTaskErrorRaise(out) == "raise"

\* lines 172-174: except Exception: log, return None
OnTaskError(out) == "None"

StopsOnNoLinksNever == FALSE

\* lines 202-204: if not links: break
StopsOnNoLinks == TRUE

OnListingErrorRaise == "listing_error"

\* lines 193-195: except Exception: log, break
OnListingError == "listing_failed"

NextPageSame(p) == p

\* line 233: page += 1
NextPage(p) == p + 1

CanAcquireAlways(v) == TRUE

\* line 165: "async with sem" enters only while the semaphore value is > 0
CanAcquire(v) == v > 0

ReleasedOnSuccess(v, out) == IF out = "ok" THEN v + 1 ELSE v

\* line 165: "async with sem" gives the permit back however its body ends
Released(v, out) == v + 1

GatherFirstDone(ts) == ts = <<>> \/ \E i \in 1..Len(ts) : ts[i].status = "done"

GatherNoneRunning(ts) == \A i \in 1..Len(ts) : ts[i].status # "running"

\* lines 217-219: asyncio.gather returns when every awaitable has finished
GatherDone(ts) == \A i \in 1..Len(ts) : ts[i].status = "done"

\* line 220: rows = [r for r in parsed_raw if r is not None]
Parsed(ts, r, p) ==
    LET recs == [i \in 1..Len(ts) |-> Row(ts[i].url, r, p)]
        keep == [i \in 1..Len(ts) |-> ts[i].result = "dict"]
    IN SelectIdx(recs, keep, 1)

ExistingNone(st, urls) == {}

\* lines 133-135: SELECT url FROM car WHERE url IN (urls), on committed rows
Existing(st, urls) == {u \in Range(urls) : u \in Urls(st)}

NewLinksAll(ls, existing) == ls

\* line 208: to_fetch = [u for u in links if u not in existing]
NewLinks(ls, existing) ==
    SelectIdx(ls, [i \in 1..Len(ls) |-> ls[i] \notin existing], 1)

InsertAppendAll(st, pend, rs) == pend \o rs

OnConflictUpdate(old, new) == new

\* line 143: on_conflict_do_nothing: the row that is already there is
\* what the table keeps
OnConflict(old, new) == old

\* the committed row with url u
RowOf(st, u) == st[CHOOSE i \in 1..Len(st) : st[i].url = u]

RECURSIVE InsertIgnoreConflicts(_, _, _)
\* lines 142-145 with the unique index on car.url (car_orm.py 13):
\* INSERT ... VALUES rs ON CONFLICT (url) DO NOTHING, row by row; a row
\* whose url is committed (st) or already written by this transaction
\* (pend) is skipped. Result: the transaction's rows after the statement.
InsertIgnoreConflicts(st, pend, rs) ==
    IF rs = <<>> THEN pend
    ELSE IF Head(rs).url \in Urls(pend)
         THEN InsertIgnoreConflicts(st, pend, Tail(rs))
    ELSE IF Head(rs).url \in Urls(st)
         THEN LET old == RowOf(st, Head(rs).url)
                  kept == OnConflict(old, Head(rs))
              IN InsertIgnoreConflicts(
                     st, IF kept = old THEN pend ELSE Append(pend, kept),
                     Tail(rs))
    ELSE InsertIgnoreConflicts(st, Append(pend, Head(rs)), Tail(rs))

RowCountGiven(before, after, rs) == Len(rs)

\* line 146: res.rowcount, the number of rows the statement wrote
RowCount(before, after, rs) == Len(after) - Len(before)

\* line 223: the transaction's rows become visible: a row written over a
\* committed url takes that row's place, every other row is added
CommitRows(st, pend) ==
    [i \in 1..Len(st) |->
        IF st[i].url \in Urls(pend)
        THEN pend[CHOOSE j \in 1..Len(pend) : pend[j].url = st[i].url]
        ELSE st[i]]
    \o SelectSeq(pend, LAMBDA w : w.url \notin Urls(st))

RollbackKeepsRows(st, pend) == st \o pend

\* leaving "async with SessionLocal() as db" on an exception closes the
\* session without commit (line 206): the transaction's rows are discarded
Rollback(st, pend) == st

InitRun(concs) ==
    /\ \E n \in concs : concurrency = [r \in Runs |-> n]
    /\ sem = concurrency
    /\ page = [r \in Runs |-> page_start]
    /\ pc = [r \in Runs |-> "listing"]
    /\ stop = [r \in Runs |-> "running"]
    /\ links = [r \in Runs |-> <<>>]
    /\ to_fetch = [r \in Runs |-> <<>>]
    /\ tasks = [r \in Runs |-> <<>>]
    /\ rows = [r \in Runs |-> <<>>]
    /\ inserted = [r \in Runs |-> 0]
    /\ db_open = [r \in Runs |-> FALSE]
    /\ pending = [r \in Runs |-> <<>>]
    /\ fetched = [r \in Runs |-> {}]
    /\ persisted = [r \in Runs |-> {}]
    /\ store = <<>>
    /\ seen = {}
    /\ lossy = FALSE

\* A local of the loop body is kept only while the code can still read
\* it: links until line 208, to_fetch and the finished tasks until line
\* 220, rows and inserted until the log call after the commit (line 225).
\* Past its last read a local is written back to its initial value: each
\* is assigned again before it is next read, and all of them go with the
\* frame when run_scraper ends.
Unfinished(ts) ==
    SelectIdx(ts, [i \in 1..Len(ts) |-> ts[i].status # "done"], 1)

EndIteration(r) ==
    /\ links' = [links EXCEPT ![r] = <<>>]
    /\ to_fetch' = [to_fetch EXCEPT ![r] = <<>>]
    /\ tasks' = [tasks EXCEPT ![r] = Unfinished(@)]
    /\ rows' = [rows EXCEPT ![r] = <<>>]
    /\ inserted' = [inserted EXCEPT ![r] = 0]

\* an exception leaves run_scraper: the "async with" blocks unwind
Escape(r, why) ==
    /\ pc' = [pc EXCEPT ![r] = "done"]
    /\ stop' = [stop EXCEPT ![r] = why]
    /\ db_open' = [db_open EXCEPT ![r] = FALSE]
    /\ store' = Rollback(store, pending[r])
    /\ pending' = [pending EXCEPT ![r] = <<>>]

\* lines 188-195: the listing fetch raises
ListingFails(r) ==
    /\ pc[r] = "listing"
    /\ fetched' = [fetched EXCEPT ![r] = @ \cup {page[r]}]
    /\ IF OnListingError = "listing_failed"
       THEN /\ pc' = [pc EXCEPT ![r] = "done"]
            /\ stop' = [stop EXCEPT ![r] = "listing_failed"]
            /\ UNCHANGED <<db_open, store, pending>>
       ELSE Escape(r, OnListingError)
    /\ UNCHANGED <<concurrency, sem, page, links, to_fetch, tasks, rows,
                   inserted, persisted, seen, lossy, fetchVars, parseVars>>

\* lines 192-204: the listing is fetched and has no a.address link
ListingEmpty(r) ==
    /\ pc[r] = "listing"
    /\ fetched' = [fetched EXCEPT ![r] = @ \cup {page[r]}]
    /\ IF StopsOnNoLinks
       THEN /\ pc' = [pc EXCEPT ![r] = "done"]
            /\ stop' = [stop EXCEPT ![r] = "no_links"]
            /\ UNCHANGED <<db_open, persisted>>
       ELSE /\ pc' = [pc EXCEPT ![r] = "dedupe"]
            /\ db_open' = [db_open EXCEPT ![r] = TRUE]
            /\ persisted' = [persisted EXCEPT ![r] = @ \cup {page[r]}]
            /\ UNCHANGED stop
    /\ UNCHANGED <<concurrency, sem, page, links, to_fetch, tasks, rows,
                   inserted, pending, sharedVars, fetchVars, parseVars>>

\* lines 192-206: the listing is fetched, has links, the session is entered
ListingLinks(r) ==
    /\ pc[r] = "listing"
    /\ page[r] <= MaxPage
    /\ \E ls \in LinkSeqs \ {<<>>} :
        /\ links' = [links EXCEPT ![r] = ls]
        /\ seen' = seen \cup Range(ls)
    /\ fetched' = [fetched EXCEPT ![r] = @ \cup {page[r]}]
    /\ db_open' = [db_open EXCEPT ![r] = TRUE]
    /\ persisted' = [persisted EXCEPT ![r] = @ \cup {page[r]}]
    /\ pc' = [pc EXCEPT ![r] = "dedupe"]
    /\ UNCHANGED <<concurrency, sem, page, stop, to_fetch, tasks, rows,
                   inserted, pending, store, lossy, fetchVars, parseVars>>

\* lines 207-219: the existence check answers; the tasks are created
Dedupe(r) ==
    /\ pc[r] = "dedupe"
    /\ LET nl == NewLinks(links[r], Existing(store, links[r])) IN
        /\ to_fetch' = [to_fetch EXCEPT ![r] = nl]
        /\ tasks' = [tasks EXCEPT ![r] = @ \o
              [i \in 1..Len(nl) |->
                  [url |-> nl[i], page |-> page[r], status |-> "waiting",
                   result |-> "pending"]]]
    /\ links' = [links EXCEPT ![r] = <<>>]
    /\ pc' = [pc EXCEPT ![r] = "gather"]
    /\ UNCHANGED <<concurrency, sem, page, stop, rows, inserted,
                   db_open, pending, fetched, persisted, sharedVars, fetchVars, parseVars>>

\* lines 207, 222, 223: the awaited database call raises
DbFails(r) ==
    /\ \/ pc[r] = "dedupe"
       \/ /\ pc[r] = "gather"
          /\ GatherDone(tasks[r])
          /\ Parsed(tasks[r], r, page[r]) # <<>>
       \/ pc[r] = "commit"
    /\ Escape(r, "db_error")
    /\ EndIteration(r)
    /\ lossy' = TRUE
    /\ UNCHANGED <<concurrency, sem, page, fetched, persisted, seen,
                   fetchVars, parseVars>>

\* line 165: a task enters "async with sem" (waiters are served in order)
TaskStart(r, i) ==
    /\ i \in 1..Len(tasks[r])
    /\ tasks[r][i].status = "waiting"
    /\ \A j \in 1..(i - 1) : tasks[r][j].status # "waiting"
    /\ CanAcquire(sem[r])
    /\ sem' = [sem EXCEPT ![r] = @ - 1]
    /\ tasks' = [tasks EXCEPT ![r][i].status = "running"]
    /\ UNCHANGED <<concurrency, page, pc, stop, links, to_fetch, rows,
                   inserted, db_open, pending, fetched, persisted,
                   sharedVars, fetchVars, parseVars>>

\* lines 165-174: fetch + parse_car end; the permit is given back
TaskFinish(r, i) ==
    /\ i \in 1..Len(tasks[r])
    /\ tasks[r][i].status = "running"
    /\ \E out \in DetailOutcomes :
        /\ sem' = [sem EXCEPT ![r] = Released(@, out)]
        /\ lossy' = (lossy \/ out # "ok")
        /\ IF out = "ok"
           THEN /\ tasks' = [tasks EXCEPT ![r][i].status = "done",
                                          ![r][i].result = "dict"]
                /\ UNCHANGED <<pc, stop, db_open, store, pending, links,
                               to_fetch, rows, inserted>>
           ELSE IF OnTaskError(out) = "None" \/ pc[r] # "gather"
           THEN /\ tasks' = [tasks EXCEPT ![r][i].status = "done",
                                          ![r][i].result = "None"]
                /\ UNCHANGED <<pc, stop, db_open, store, pending, links,
                               to_fetch, rows, inserted>>
           ELSE /\ Escape(r, "task_error")
                /\ links' = [links EXCEPT ![r] = <<>>]
                /\ to_fetch' = [to_fetch EXCEPT ![r] = <<>>]
                /\ tasks' = [tasks EXCEPT ![r] =
                        Unfinished([@ EXCEPT ![i].status = "done"])]
                /\ rows' = [rows EXCEPT ![r] = <<>>]
                /\ inserted' = [inserted EXCEPT ![r] = 0]
    /\ UNCHANGED <<concurrency, page, fetched, persisted, seen, fetchVars, parseVars>>

\* lines 164-174, 217-219 as run_scraper sees them: the whole batch runs
\* and gather returns one dict or None per url of to_fetch
Batch(r) ==
    /\ pc[r] = "gather"
    /\ tasks[r] # <<>>
    /\ \A i \in 1..Len(tasks[r]) : tasks[r][i].status = "waiting"
    /\ \E outs \in [1..Len(tasks[r]) -> DetailOutcomes] :
        /\ tasks' = [tasks EXCEPT ![r] =
              [i \in 1..Len(@) |->
                  [@[i] EXCEPT !.status = "done",
                               !.result = IF outs[i] = "ok" THEN "dict"
                                          ELSE OnTaskError(outs[i])]]]
        /\ lossy' = (lossy \/ \E i \in 1..Len(tasks[r]) : outs[i] # "ok")
    /\ UNCHANGED <<concurrency, sem, page, pc, stop, links, to_fetch, rows,
                   inserted, db_open, pending, fetched, persisted, store,
                   seen, fetchVars, parseVars>>

\* lines 217-222: gather returns, rows are filtered, the INSERT executes.
\* A row whose url another open transaction has inserted makes the
\* statement wait for that transaction (unique index).
Insert(r) ==
    /\ pc[r] = "gather"
    /\ GatherDone(tasks[r])
    /\ LET rs == Parsed(tasks[r], r, page[r])
           after == IF rs = <<>> THEN pending[r]
                    ELSE InsertIgnoreConflicts(store, pending[r], rs)
       IN
        /\ \A s \in Runs \ {r} : Urls(rs) \cap Urls(pending[s]) = {}
        /\ rows' = [rows EXCEPT ![r] = rs]
        /\ pending' = [pending EXCEPT ![r] = after]
        /\ inserted' = [inserted EXCEPT ![r] = RowCount(pending[r], after, rs)]
    /\ to_fetch' = [to_fetch EXCEPT ![r] = <<>>]
    /\ tasks' = [tasks EXCEPT ![r] = Unfinished(@)]
    /\ pc' = [pc EXCEPT ![r] = "commit"]
    /\ UNCHANGED <<concurrency, sem, page, stop, links,
                   db_open, fetched, persisted, sharedVars, fetchVars, parseVars>>

\* line 223: await db.commit()
Commit(r) ==
    /\ pc[r] = "commit"
    /\ store' = CommitRows(store, pending[r])
    /\ pending' = [pending EXCEPT ![r] = <<>>]
    /\ rows' = [rows EXCEPT ![r] = <<>>]
    /\ inserted' = [inserted EXCEPT ![r] = 0]
    /\ pc' = [pc EXCEPT ![r] = "release"]
    /\ UNCHANGED <<concurrency, sem, page, stop, links, to_fetch, tasks,
                   db_open, fetched, persisted, seen, lossy, fetchVars, parseVars>>

\* line 206: the "async with SessionLocal() as db" block is left
Release(r) ==
    /\ pc[r] = "release"
    /\ db_open' = [db_open EXCEPT ![r] = FALSE]
    /\ pc' = [pc EXCEPT ![r] = "pace"]
    /\ UNCHANGED <<concurrency, sem, page, stop, links, to_fetch, tasks, rows,
                   inserted, pending, fetched, persisted, sharedVars,
                   fetchVars, parseVars>>

\* lines 232-233: await human_delay(PAGE_DELAY_RANGE); page += 1
Pace(r) ==
    /\ pc[r] = "pace"
    /\ page' = [page EXCEPT ![r] = NextPage(@)]
    /\ pc' = [pc EXCEPT ![r] = "listing"]
    /\ UNCHANGED <<concurrency, sem, stop, links, to_fetch, tasks, rows,
                   inserted, db_open, pending, fetched, persisted,
                   sharedVars, fetchVars, parseVars>>

\* ------------------------------------------------------------ parse_car
\* characters of a text node: some decimal digits and some other characters
Chars == {"0", "1", "9", " ", "-"}

IsDigit(c) == c \in {"0", "1", "2", "3", "4", "5", "6", "7", "8", "9"}

DigitVal(c) ==
    CASE c = "0" -> 0 [] c = "1" -> 1 [] c = "2" -> 2 [] c = "3" -> 3
      [] c = "4" -> 4 [] c = "5" -> 5 [] c = "6" -> 6 [] c = "7" -> 7
      [] c = "8" -> 8 [] c = "9" -> 9

Texts == SeqsUpTo(Chars, MaxText)

\* what soup.select_one gives: None, or an element with its text
NoNode == [present |-> FALSE, text |-> <<>>]
Nodes == {NoNode} \cup {[present |-> TRUE, text |-> t] : t \in Texts}

\* detail pages: the two elements together carry at most MaxText characters
Pages ==
    {pg \in [odo : Nodes, phone : Nodes] :
        Len(pg.odo.text) + Len(pg.phone.text) <= MaxText}

RECURSIVE Strip(_)
\* get_text(strip=True): white space at both ends goes
Strip(t) ==
    IF t = <<>> THEN t
    ELSE IF Head(t) = " " THEN Strip(Tail(t))
    ELSE IF t[Len(t)] = " " THEN Strip(SubSeq(t, 1, Len(t) - 1))
    ELSE t

\* safe_text(node, default="")
safe_text(node) == IF node.present THEN Strip(node.text) ELSE <<>>

RECURSIVE SkipRun(_)
\* the rest of the text after the maximal run of non-digits at its head
SkipRun(t) ==
    IF t = <<>> \/ IsDigit(Head(t)) THEN t ELSE SkipRun(Tail(t))

RECURSIVE ReSub(_)
\* re.compile(r"\D+").sub("", text): every maximal run of non-digit
\* characters is replaced by nothing
ReSub(t) ==
    IF t = <<>> THEN <<>>
    ELSE IF IsDigit(Head(t)) THEN <<Head(t)>> \o ReSub(Tail(t))
    ELSE ReSub(SkipRun(t))

RECURSIVE int(_)
\* int(s) of a string of decimal digits; int is unbounded in Python
int(ds) ==
    IF ds = <<>> THEN 0
    ELSE int(SubSeq(ds, 1, Len(ds) - 1)) * 10 + DigitVal(ds[Len(ds)])

ThousandsUpTo(n) == n <= 1000

\* line 36: the test "n < 1000"
Thousands(n) == n < 1000

\* parse_odometer(text); "or 0" stands for the empty digit string
parse_odometer(text) ==
    LET ds == ReSub(text)
        n == IF ds = <<>> THEN 0 ELSE int(ds)
    IN IF Thousands(n) THEN n * 1000 ELSE n

only_spaces_removed(text) == SelectSeq(text, LAMBDA c : c # " ")

\* only_digits(text); text is never None here
only_digits(text) == ReSub(text)

NoCar == [odometer |-> 0, phone_number |-> <<>>]

InitParse(pages) ==
    /\ html \in pages
    /\ odo_raw = <<>>
    /\ phone_raw = <<>>
    /\ car = NoCar
    /\ ppc = "select"

\* lines 104, 107: the two safe_text(select_one(...)) calls
SelectTexts ==
    /\ ppc = "select"
    /\ odo_raw' = safe_text(html.odo)
    /\ phone_raw' = safe_text(html.phone)
    /\ ppc' = "build"
    /\ UNCHANGED <<html, car>>

\* lines 115-127: the returned dict
BuildCar ==
    /\ ppc = "build"
    /\ car' = [odometer |-> IF odo_raw # <<>> THEN parse_odometer(odo_raw)
                            ELSE 0,
               phone_number |-> only_digits(phone_raw)]
    /\ ppc' = "done"
    /\ UNCHANGED <<html, odo_raw, phone_raw>>

NextText ==
    \/ SelectTexts /\ UNCHANGED <<fetchVars, runVars, sharedVars>>
    \/ BuildCar /\ UNCHANGED <<fetchVars, runVars, sharedVars>>

\* both runs get the same concurrency (scheduler.py 14 passes none); Batch
\* takes no permit, so the value plays no part under Next
Init ==
    InitFetch /\ InitRun({MaxConc}) /\ InitParse({[odo |-> NoNode, phone |-> NoNode]})

InitPool ==
    InitFetch /\ InitRun(1..MaxConc) /\ InitParse({[odo |-> NoNode, phone |-> NoNode]})

InitText == InitFetch /\ InitRun({MaxConc}) /\ InitParse(Pages)

\* two runs racing on the store; each batch seen as run_scraper sees it
Next ==
    \E r \in Runs :
        \/ ListingFails(r)
        \/ ListingEmpty(r)
        \/ ListingLinks(r)
        \/ Dedupe(r)
        \/ DbFails(r)
        \/ Batch(r)
        \/ Insert(r)
        \/ Commit(r)
        \/ Release(r)
        \/ Pace(r)

Spec == Init /\ [][Next]_vars

\* one run, its detail tasks step by step
NextPool ==
    \/ ListingFails(Solo)
    \/ ListingEmpty(Solo)
    \/ ListingLinks(Solo)
    \/ Dedupe(Solo)
    \/ DbFails(Solo)
    \/ \E i \in 1..MaxLinks : TaskStart(Solo, i)
    \/ \E i \in 1..MaxLinks : TaskFinish(Solo, i)
    \/ Insert(Solo)
    \/ Commit(Solo)
    \/ Release(Solo)
    \/ Pace(Solo)

SpecPool == InitPool /\ [][NextPool]_vars

\* the event loop resumes a runnable coroutine: every sleep and every
\* response ends, so an enabled step of fetch is eventually taken
SpecFetch == Init /\ [][NextFetch]_vars /\ WF_vars(NextFetch)

\* =====================================================================
\* Properties of fetch (under SpecFetch)
\* =====================================================================

Resp429 == [kind |-> "status", code |-> 429]

All429 == \A i \in 1..Len(trace) : trace[i] = Resp429

Returned == f_result # "none"

\* C2: while every response of the call has been a 429, the call has issued
\* one GET per attempt and never more than MAX_RETRIES, it has returned no
\* body, and once it has ended it has ended in RuntimeError after exactly
\* MAX_RETRIES GETs; and every call ends.
C2_RetryBound ==
    /\ [](All429 =>
            /\ gets = Len(trace)
            /\ gets <= MAX_RETRIES
            /\ f_result # "body"
            /\ (Returned => f_result = "RuntimeError" /\ gets = MAX_RETRIES))
    /\ <>Returned

C2_Witness ==
    /\ All429
    /\ Len(trace) = MAX_RETRIES
    /\ f_result = "RuntimeError"

\* a status at or above 400 that is not a blocking status
ErrorStatus(resp) ==
    resp.kind = "status" /\ resp.code >= 400 /\ resp.code \notin {403, 429}

\* a non-2xx status that is not a blocking status
HardStatus(resp) ==
    /\ resp.kind = "status"
    /\ (resp.code < 200 \/ resp.code >= 300)
    /\ resp.code \notin {403, 429}

\* C3 as stated: an attempt that receives a non-2xx status other than 403
\* or 429 is the last attempt of the call, and the call has failed.
C3_FailsImmediately ==
    \A i \in 1..Len(trace) :
        HardStatus(trace[i]) =>
            i = Len(trace) /\ f_result \notin {"none", "body"}

\* C3 amended: an HTTP error status (>= 400) other than 403 or 429 is
\* caught like a network error: it becomes last_exc, the loop moves to the
\* next attempt, and the call fails (RuntimeError) only once MAX_RETRIES
\* attempts are used up; no other exception reaches the caller. A non-2xx
\* status below 400 ends the call with a body.
C3_ErrorStatusRetried ==
    /\ f_result \in {"none", "body", "RuntimeError"}
    /\ f_result = "RuntimeError" => Len(trace) = MAX_RETRIES
    /\ \A i \in 1..Len(trace) :
        /\ ErrorStatus(trace[i]) /\ i = Len(trace) =>
              /\ last_exc = [type |-> "ClientResponseError", at |-> i]
              /\ attempt = i + 1
              /\ (i < MAX_RETRIES => f_result = "none")
        /\ HardStatus(trace[i]) /\ ~ErrorStatus(trace[i]) =>
              i = Len(trace) /\ f_result = "body"

\* an error status on one attempt, a body from a later attempt
C3_Witness ==
    /\ f_result = "body"
    /\ \E i \in 1..Len(trace) : i < Len(trace) /\ ErrorStatus(trace[i])

\* C4 as stated: the RuntimeError raised after the last attempt has the
\* failure of that last attempt as its cause.
C4_CauseIsLastAttempt ==
    f_result = "RuntimeError" => f_cause # None /\ f_cause.at = MAX_RETRIES

RECURSIVE LastRaisedIn(_, _)
\* the exception of the latest of the attempts 1..n of tr that ended in an
\* exception; None when none did
LastRaisedIn(tr, n) ==
    IF n = 0 THEN None
    ELSE IF Raised(tr[n], n) # None THEN Raised(tr[n], n)
         ELSE LastRaisedIn(tr, n - 1)

\* C4 amended: the RuntimeError raised after MAX_RETRIES attempts has as its
\* cause the exception of the latest attempt that ended in an exception
\* (network error, timeout or HTTP error status); a blocked attempt (403 or
\* 429) leaves the cause as it was, and there is no cause when every
\* attempt was blocked.
C4_CauseIsLastException ==
    f_result = "RuntimeError" =>
        /\ Len(trace) = MAX_RETRIES
        /\ f_cause = LastRaisedIn(trace, Len(trace))
        /\ (f_cause = None <=> \A i \in 1..Len(trace) : Blocked(trace[i]))

\* a failure on an early attempt, blocked afterwards: the cause is stale
C4_Witness ==
    /\ f_result = "RuntimeError"
    /\ f_cause # None
    /\ f_cause.at < MAX_RETRIES
    /\ Blocked(trace[MAX_RETRIES])

\* =====================================================================
\* Properties of the worker pool and the crawl loop
\* =====================================================================

InFlight(r) ==
    Cardinality({i \in 1..Len(tasks[r]) : tasks[r][i].status = "running"})

Waiting(r) ==
    Cardinality({i \in 1..Len(tasks[r]) : tasks[r][i].status = "waiting"})

\* C1: in every state the number of guarded_parse tasks inside
\* "async with sem" is at most the concurrency limit of their run.
C1_Ceiling == \A r \in Runs : InFlight(r) <= concurrency[r]

\* a batch larger than the limit, the limit reached, a task kept waiting
C1_Witness ==
    /\ Len(tasks[Solo]) > concurrency[Solo]
    /\ InFlight(Solo) = concurrency[Solo]
    /\ Waiting(Solo) > 0

\* the records of the tasks of ts that returned a dict, in task order
SuccessRows(ts, r, p) ==
    LET ok == SelectSeq(ts, LAMBDA t : t.result = "dict")
    IN [i \in 1..Len(ok) |-> Row(ok[i].url, r, p)]

\* C5: no failure of a detail task leaves the pool (the run never ends on
\* one); a step never removes or alters an unfinished sibling task; the
\* loop leaves the batch only once every task is done, and then (whatever
\* the number of failed tasks) goes on to the insert with exactly the
\* records of the tasks that succeeded, unless the insert itself fails.
C5_Isolation ==
    /\ [](\A r \in Runs : stop[r] # "task_error")
    /\ [][\A r \in Runs :
            /\ \A i \in 1..Len(tasks[r]) :
                  tasks[r][i].status = "waiting" =>
                      /\ i <= Len(tasks'[r])
                      /\ tasks'[r][i].url = tasks[r][i].url
                      /\ tasks'[r][i].status \in {"waiting", "running"}
            /\ pc[r] = "gather" /\ pc'[r] # "gather" =>
                  /\ GatherDone(tasks[r])
                  /\ \/ /\ pc'[r] = "commit"
                        /\ rows'[r] = SuccessRows(tasks[r], r, page[r])
                     \/ stop'[r] = "db_error"]_vars

\* every task of page 1 failed (nothing was stored), and the run is at the
\* listing fetch of page 2
C5_Witness ==
    /\ pc[Solo] = "listing"
    /\ page[Solo] = page_start + 1
    /\ stop[Solo] = "running"
    /\ lossy
    /\ store = <<>>

\* C6: a listing step that yields no link (an empty listing, or a listing
\* fetch that failed) ends the run at once, by a normal return; a run that
\* returned so has issued no persistence operation for its last page and no
\* listing fetch for the page after it, and never does afterwards.
C6_PaginationStops ==
    /\ [](\A r \in Runs :
            /\ stop[r] # "listing_error"
            /\ stop[r] \in {"no_links", "listing_failed"} =>
                  /\ pc[r] = "done"
                  /\ page[r] \in fetched[r]
                  /\ page[r] \notin persisted[r]
                  /\ (page[r] + 1) \notin fetched[r]
                  /\ ~db_open[r]
                  /\ pending[r] = <<>>)
    /\ [][\A r \in Runs :
            /\ pc[r] = "listing" /\ pc'[r] # "listing" /\ links'[r] = <<>> =>
                  /\ stop'[r] \in {"no_links", "listing_failed"}
                  /\ store' = store
            /\ stop[r] # "running" =>
                  /\ stop'[r] = stop[r]
                  /\ pc'[r] = pc[r]
                  /\ page'[r] = page[r]
                  /\ fetched'[r] = fetched[r]
                  /\ persisted'[r] = persisted[r]]_vars

\* one run stopped on an empty listing, the other on a failed listing
\* fetch, both after a first page that was persisted
C6_Witness ==
    /\ stop["r1"] = "no_links"
    /\ stop["r2"] = "listing_failed"
    /\ persisted["r1"] # {}
    /\ persisted["r2"] # {}

NoDuplicateUrl(rs) ==
    \A i, j \in 1..Len(rs) : i # j => rs[i].url # rs[j].url

\* C7: the committed table never holds two rows with the same url.
C7_StoreUnique == NoDuplicateUrl(store)

\* a run is about to commit a batch holding a url it saw as new, which the
\* other run has committed in the meantime
C7_Witness ==
    \E r \in Runs : \E i \in 1..Len(rows[r]) : \E j \in 1..Len(store) :
        /\ pc[r] = "commit"
        /\ store[j].url = rows[r][i].url
        /\ store[j].run # r

AllDone == \A r \in Runs : pc[r] = "done"

\* C8 as stated: once both runs are over (each ran to the end of the
\* listing), the table holds as many rows as distinct urls were seen on
\* listing pages.
C8_CountEqualsSeen ==
    (\A r \in Runs : stop[r] = "no_links") =>
        Len(store) = Cardinality(seen)

\* C8 amended: the table holds one row per distinct stored url, all of them
\* urls seen on a listing page, so at most as many rows as distinct urls
\* seen; once both runs are over it holds exactly one row per url seen if
\* no detail task and no persistence step failed. The urls handed to the
\* pool are the page's links that are not stored, so a page whose links
\* are all stored adds no row.
C8_CountAtMostSeen ==
    /\ [](/\ Len(store) = Cardinality(Urls(store))
          /\ Urls(store) \subseteq seen
          /\ Len(store) <= Cardinality(seen)
          /\ (AllDone /\ ~lossy => Len(store) = Cardinality(seen)))
    /\ [][\A r \in Runs :
            pc[r] = "dedupe" /\ pc'[r] = "gather" =>
                /\ Range(to_fetch'[r]) = Range(links[r]) \ Urls(store)
                /\ (Range(links[r]) \subseteq Urls(store) =>
                        to_fetch'[r] = <<>>)]_vars

\* both runs are over, nothing failed, the second run saw links and every
\* row is the first run's
C8_Witness ==
    /\ AllDone
    /\ ~lossy
    /\ store # <<>>
    /\ persisted["r2"] # {}
    /\ \A i \in 1..Len(store) : store[i].run = "r1"

\* C9: a run that ended on a persistence failure ended at once (the
\* session is closed, nothing is left uncommitted, no later listing page
\* was or will be fetched) and no row of the page it failed on is in the
\* table; the failing step leaves the table as it was.
C9_PersistenceFatal ==
    /\ [](\A r \in Runs :
            stop[r] = "db_error" =>
                /\ pc[r] = "done"
                /\ ~db_open[r]
                /\ pending[r] = <<>>
                /\ (page[r] + 1) \notin fetched[r]
                /\ \A i \in 1..Len(store) :
                      ~(store[i].run = r /\ store[i].page = page[r]))
    /\ [][\A r \in Runs :
            /\ stop[r] = "running" /\ stop'[r] = "db_error" =>
                  /\ pc[r] \in {"dedupe", "gather", "commit"}
                  /\ store' = store
            /\ stop[r] = "db_error" =>
                  /\ stop'[r] = "db_error"
                  /\ fetched'[r] = fetched[r]]_vars

\* a run failed on its second page; its first page's rows are in the table
C9_Witness ==
    \E r \in Runs :
        /\ stop[r] = "db_error"
        /\ page[r] = page_start + 1
        /\ \E i \in 1..Len(store) : store[i].run = r

PageOrder ==
    {<<"listing", "dedupe">>, <<"dedupe", "gather">>, <<"gather", "commit">>,
     <<"commit", "release">>, <<"release", "pace">>, <<"pace", "listing">>}

\* C10: a run moves through one page in the order listing fetch, existence
\* check, detail tasks, insert, commit, session release, delay, and only
\* the delay leads to the next listing fetch, of the next page; detail
\* tasks exist only between the existence check and the insert and are
\* tasks of the current page; the session is open only from the existence
\* check to the release; so at a listing fetch no task is pending or in
\* flight, every permit is free and no session is open.
C10_PagesSequential ==
    /\ [](\A r \in Runs :
            /\ tasks[r] # <<>> => pc[r] = "gather"
            /\ \A i \in 1..Len(tasks[r]) : tasks[r][i].page = page[r]
            /\ db_open[r] <=> pc[r] \in {"dedupe", "gather", "commit", "release"}
            /\ pending[r] # <<>> => pc[r] = "commit"
            /\ pc[r] = "listing" =>
                  /\ tasks[r] = <<>>
                  /\ sem[r] = concurrency[r]
                  /\ ~db_open[r]
                  /\ fetched[r] = page_start..(page[r] - 1))
    /\ [][\A r \in Runs :
            /\ pc'[r] # pc[r] =>
                  \/ <<pc[r], pc'[r]>> \in PageOrder
                  \/ pc'[r] = "done" /\ pc[r] \in {"listing", "dedupe", "gather", "commit"}
            /\ page'[r] # page[r] =>
                  /\ pc[r] = "pace"
                  /\ pc'[r] = "listing"
                  /\ page'[r] = page[r] + 1]_vars

\* the listing fetch of page 2 is about to begin; page 1 had detail tasks
\* whose records are committed
C10_Witness ==
    /\ pc[Solo] = "listing"
    /\ page[Solo] = page_start + 1
    /\ \E i \in 1..Len(store) : store[i].page = page_start

\* C11: no step changes, moves or removes a row of the table: every row
\* stays where it is with the field values it was committed with; and no
\* transaction ever holds a row for a url that is committed, so a record
\* whose url exists leaves the stored row as it was.
C11_RowsImmutable ==
    /\ [](\A r \in Runs : Urls(pending[r]) \cap Urls(store) = {})
    /\ [][\A i \in 1..Len(store) :
            /\ i <= Len(store')
            /\ store'[i] = store[i]]_vars

\* an insert was given records whose urls the other run had committed
\* with its own field values: it wrote nothing and those rows stand
C11_Witness ==
    \E r \in Runs :
        /\ pc[r] = "commit"
        /\ rows[r] # <<>>
        /\ inserted[r] = 0
        /\ \A i \in 1..Len(rows[r]) : \E j \in 1..Len(store) :
              /\ store[j].url = rows[r][i].url
              /\ store[j].run # r

\* one call of parse_car on every small detail page
SpecText == InitText /\ [][NextText]_vars

\* the digit characters of a text, in their order
DigitsOf(t) == SelectSeq(t, IsDigit)

RECURSIVE Pow10(_)
Pow10(k) == IF k = 0 THEN 1 ELSE 10 * Pow10(k - 1)

RECURSIVE Weighted(_, _)
\* the integer whose decimal digits are ds: sum of digit * 10^position
Weighted(ds, i) ==
    IF i > Len(ds) THEN 0
    ELSE DigitVal(ds[i]) * Pow10(Len(ds) - i) + Weighted(ds, i + 1)

DigitValue(t) == Weighted(DigitsOf(t), 1)

\* C12: the odometer of the returned record is n * 1000 when the digit
\* value n of the raw odometer text is below 1000, and n itself otherwise
\* (n = 0 for a text without digits or a missing element); the same holds
\* for parse_odometer applied to the stripped text.
C12_Odometer ==
    LET n == DigitValue(html.odo.text)
        want == IF n < 1000 THEN n * 1000 ELSE n
    IN /\ ppc = "done" => car.odometer = want
       /\ ppc # "select" => parse_odometer(odo_raw) = want

\* the boundary 999, written with other characters between the digits
C12_Witness ==
    /\ ppc = "done"
    /\ html.odo.text = <<"9", "9", " ", "9">>
    /\ car.odometer = 999000

\* C13: the phone number of the returned record is the subsequence of
\* the digit characters of the phone element's text, in their order, and
\* the empty string when the element is missing.
C13_Phone ==
    ppc = "done" =>
        /\ car.phone_number = DigitsOf(html.phone.text)
        /\ ~html.phone.present => car.phone_number = <<>>

\* digits on both sides of a dash, a leading zero kept
C13_Witness ==
    /\ ppc = "done"
    /\ html.phone.text = <<"0", "-", "9", "1">>
    /\ car.phone_number = <<"0", "9", "1">>

\* C14: the insert of a page is issued only when every task of the page's
\* batch is done, whether it returned a record or failed; the records
\* handed to it are exactly those of the tasks that returned one, and it
\* writes those of them whose url is not stored; while a transaction holds
\* a written record, no task is waiting or running.
C14_BatchBarrier ==
    /\ [](\A r \in Runs :
            pending[r] # <<>> \/ pc[r] \in {"commit", "release", "pace"} =>
                \A i \in 1..Len(tasks[r]) : tasks[r][i].status = "done")
    /\ [][\A r \in Runs :
            pc[r] = "gather" /\ pc'[r] = "commit" =>
                /\ \A i \in 1..Len(tasks[r]) :
                      /\ tasks[r][i].status = "done"
                      /\ tasks[r][i].result \in {"dict", "None"}
                /\ rows'[r] = SuccessRows(tasks[r], r, page[r])
                /\ Urls(pending'[r]) =
                      Urls(SuccessRows(tasks[r], r, page[r])) \ Urls(store)]_vars

\* the first page's batch had a task that failed and one that returned a
\* record; the insert was issued with that one record and wrote it
C14_Witness ==
    /\ pc[Solo] = "commit"
    /\ page[Solo] = page_start
    /\ lossy
    /\ Len(rows[Solo]) = 1
    /\ pending[Solo] = rows[Solo]

\* C15: the existence check hands the pool the page's links that are not
\* stored, in listing order, one task each, and nothing else; so no task,
\* waiting or running, is ever for a url the check found in the store.
C15_OnlyNewFetched ==
    /\ [](\A r \in Runs : \A i \in 1..Len(tasks[r]) :
            tasks[r][i].url \notin Urls(store))
    /\ [][\A r \in Runs :
            /\ pc[r] = "dedupe" /\ pc'[r] = "gather" =>
                  /\ to_fetch'[r] =
                        SelectSeq(links[r], LAMBDA u : u \notin Urls(store))
                  /\ Len(tasks'[r]) = Len(to_fetch'[r])
                  /\ \A i \in 1..Len(tasks'[r]) :
                        /\ tasks'[r][i].url = to_fetch'[r][i]
                        /\ tasks'[r][i].status = "waiting"
            /\ pc[r] = "gather" /\ pc'[r] = "gather" =>
                  /\ Len(tasks'[r]) = Len(tasks[r])
                  /\ \A i \in 1..Len(tasks[r]) :
                        tasks'[r][i].url = tasks[r][i].url]_vars

\* the second page listed only urls the first page had stored: the pool
\* got no task
C15_Witness ==
    /\ pc[Solo] = "gather"
    /\ page[Solo] = page_start + 1
    /\ store # <<>>
    /\ to_fetch[Solo] = <<>>
    /\ tasks[Solo] = <<>>

\* an attempt that draws on the budget: blocked, or ended in an exception
\* the loop catches
Retried(tr, i) ==
    \/ Blocked(tr[i])
    \/ Raised(tr[i], i) # None /\ Catches(Raised(tr[i], i))

\* C16 as stated: blocked and failed attempts share one budget, the call
\* ends, and what the caller gets after exhaustion is the same whatever
\* the attempts were: the all-blocked call raises RuntimeError with no
\* cause, so every exhausted call would have to.
C16_Indistinguishable ==
    /\ [](gets = Len(trace) /\ gets <= MAX_RETRIES)
    /\ [](f_result = "RuntimeError" => f_cause = None)
    /\ <>Returned

\* C16 amended: every attempt, blocked or failed, is one GET and takes one
\* value of the same loop, so a call issues at most MAX_RETRIES GETs and
\* ends; a call whose attempts were all blocked or failed ends after
\* exactly MAX_RETRIES GETs in RuntimeError, whatever the mix; the
\* exception differs only in its cause, which is absent exactly when every
\* attempt was blocked.
C16_SharedBudget ==
    /\ [](/\ gets = Len(trace)
          /\ gets <= MAX_RETRIES
          /\ f_result = "none" =>
                /\ attempt = gets + 1
                /\ \A i \in 1..Len(trace) : Retried(trace, i))
    /\ [](Returned /\ (\A i \in 1..Len(trace) : Retried(trace, i)) =>
            /\ f_result = "RuntimeError"
            /\ gets = MAX_RETRIES
            /\ (f_cause = None <=> \A i \in 1..Len(trace) : Blocked(trace[i])))
    /\ <>Returned

\* a mix: blocked first, broken last; the RuntimeError carries the last
\* attempt's exception
C16_Witness ==
    /\ f_result = "RuntimeError"
    /\ Blocked(trace[1])
    /\ ~Blocked(trace[MAX_RETRIES])
    /\ f_cause # None
    /\ f_cause.at = MAX_RETRIES

\* the page cursor moves only at the end of a completed page, by one
CursorSteps ==
    \A r \in Runs :
        /\ page'[r] # page[r] =>
              /\ pc[r] = "pace"
              /\ page'[r] = page[r] + 1
        /\ pc[r] = "pace" /\ pc'[r] # "pace" =>
              /\ pc'[r] = "listing"
              /\ page'[r] = page[r] + 1
              /\ stop'[r] = "running"

\* C17 as stated: the cursor starts at page_start and advances by one per
\* completed page, and a run leaves the loop only as Stopped(no links) or
\* Stopped(listing fetch failed).
C17_OnlyTwoStops ==
    /\ [](\A r \in Runs :
            /\ page[r] >= page_start
            /\ stop[r] \in {"running", "no_links", "listing_failed"})
    /\ [][CursorSteps]_vars

\* C17 amended: the cursor starts at page_start and advances by exactly
\* one per completed page; a run leaves the loop at the listing fetch, as
\* Stopped(no links) or Stopped(listing fetch failed), or at the existence
\* check, the insert or the commit through a failing persistence
\* operation, and in no other way; a batch that yields no record (no new
\* link, or every detail task failed) goes on to the commit, and a page
\* that was committed always advances to the next page.
C17_LoopExits ==
    /\ [](\A r \in Runs :
            /\ page[r] >= page_start
            /\ stop[r] \in {"running", "no_links", "listing_failed", "db_error"}
            /\ pc[r] = "done" <=> stop[r] # "running")
    /\ [][/\ CursorSteps
          /\ \A r \in Runs :
              /\ stop[r] = "running" /\ stop'[r] # "running" =>
                    \/ /\ pc[r] = "listing"
                       /\ stop'[r] \in {"no_links", "listing_failed"}
                    \/ /\ pc[r] \in {"dedupe", "gather", "commit"}
                       /\ stop'[r] = "db_error"
              /\ /\ pc[r] = "gather"
                 /\ pc'[r] # "gather"
                 /\ SuccessRows(tasks[r], r, page[r]) = <<>>
                 => pc'[r] = "commit" /\ stop'[r] = "running"
              /\ pc[r] = "release" /\ pc'[r] # "release" =>
                    pc'[r] = "pace" /\ stop'[r] = "running"]_vars

\* the run is past every page that has links, nothing failed, and the
\* table holds one row: a later page listed only a stored url and the
\* cursor advanced all the same
C17_Witness ==
    /\ pc[Solo] = "listing"
    /\ stop[Solo] = "running"
    /\ page[Solo] = page_start + MaxPage
    /\ ~lossy
    /\ Len(store) = 1

\* C18: the count an insert returns is the number of rows the statement
\* wrote: never more than the records given, none of them for a url that
\* is stored or written twice, and 0 with nothing written when no record
\* is given; a url is written by at most one of two racing runs; the table
\* grows only at a commit, by exactly the count the committed insert
\* returned, so the counts of the committed inserts add up to the rows of
\* the table.
C18_InsertedCount ==
    /\ [](/\ \A r \in Runs :
                pc[r] = "commit" =>
                    /\ inserted[r] = Len(pending[r])
                    /\ inserted[r] <= Len(rows[r])
                    /\ inserted[r] = Cardinality(Urls(rows[r]) \ Urls(store))
                    /\ Urls(pending[r]) \subseteq Urls(rows[r])
                    /\ NoDuplicateUrl(pending[r])
          /\ \A r, q \in Runs :
                r # q => Urls(pending[r]) \cap Urls(pending[q]) = {})
    /\ [][/\ \A r \in Runs :
                pc[r] = "gather" /\ pc'[r] = "commit" /\ rows'[r] = <<>> =>
                    /\ inserted'[r] = 0
                    /\ pending'[r] = pending[r]
                    /\ store' = store
          /\ store' # store =>
                \E r \in Runs :
                    /\ pc[r] = "commit"
                    /\ pc'[r] = "release"
                    /\ Len(store') = Len(store) + inserted[r]
                    /\ \A i \in (Len(store) + 1)..Len(store') :
                          store'[i].run = r]_vars

\* two records given, one of them for a url the other run committed while
\* this run was fetching: the insert returned 1
C18_Witness ==
    \E r \in Runs :
        /\ pc[r] = "commit"
        /\ Cardinality(Urls(rows[r])) = 2
        /\ inserted[r] = 1
        /\ \E j \in 1..Len(store) :
              /\ store[j].run # r
              /\ store[j].url \in Urls(rows[r])

\* C19: the free permits of a run are always between 0 and its limit and
\* are the limit minus the number of its tasks in flight; they are all
\* free whenever no task of the batch is running, in particular when the
\* batch has finished and at every other point of the loop, whatever the
\* tasks' outcomes were.
C19_PermitConservation ==
    \A r \in Runs :
        /\ sem[r] \in 0..concurrency[r]
        /\ sem[r] = concurrency[r] - InFlight(r)
        /\ GatherDone(tasks[r]) => sem[r] = concurrency[r]
        /\ pc[r] # "gather" => sem[r] = concurrency[r]

\* every task of the first page failed, and the second page's batch has
\* as many tasks in flight as the limit allows
C19_Witness ==
    /\ page[Solo] = page_start + 1
    /\ lossy
    /\ store = <<>>
    /\ concurrency[Solo] = MaxConc
    /\ InFlight(Solo) = MaxConc
    /\ sem[Solo] = 0

\* C20: in every batch no two tasks are for the same url, and the records
\* handed to the insert hold no url twice.
C20_OneTaskPerUrl ==
    \A r \in Runs :
        /\ NoDuplicateUrl(tasks[r])
        /\ NoDuplicateUrl(rows[r])

====
